---- MODULE Spec2Model ----
(***************************************************************************)
(* The XNAT repository's local cache of one remote file group, as several  *)
(* worker processes share it (arcana2/repositories/xnat.py):               *)
(*   <cache_path>            the cached files               (cache)        *)
(*   <cache_path>.md5.json   the checksum manifest          (manifest)     *)
(*   <cache_path>.download   the download directory/marker  (tmp_dir)      *)
(* Each process runs Xnat.get_file_group_paths or Xnat.put_file_group; its *)
(* position in the method is pc[p].  Every file-system call and every      *)
(* request to the server is one step.                                      *)
(***************************************************************************)
EXTENDS Naturals, FiniteSets, Sequences

\* ------------------------------------------------------------------ bounds
\* calls each process may make
MaxCalls == 2
\* changes of the remote resource (each alters the digest of one file)
MaxChanges == 1
\* characters of a uri
MaxUriLen == 7
\* characters (and suffixes) of a resource label
MaxLabelLen == 2
\* characters of an id given to bidsify_id
MaxIdLen == 5

\* the worker processes sharing the cache directory
Procs == {"p1", "p2", "p3"}
\* the files of the resource: the primary file and one auxiliary file
Files == {"prim", "aux"}

VARIABLES
    remote,       \* the resource on the server: file name -> digest of its content
    check_md5,    \* Xnat.check_md5
    directory,    \* file_group.data_format.directory
    has_race_cond_delay,  \* the repository object has the attribute _race_cond_delay
    cache,        \* cache_path: [exists, files: name -> digest (0: no such file), nested]
    manifest,     \* cache_path + MD5_SUFFIX: [state, sums]
    tmp_dir,      \* cache_path + '.download': its download.zip and expanded/
    unchanged,    \* processes whose initial_mod_time still equals dir_modtime(tmp_dir)
    pc,           \* position of each process in get_file_group_paths
    calls,        \* calls each process may still make
    checksums,    \* local 'checksums' of download_file_group
    via,          \* how the current/last call came to download: none, direct, takeover
    faulted,      \* the remote failed during the current/last call
    snap,         \* what a call made with no other process about found at its start
    derived,      \* file_group.derived: the item is a derivative, not a scan
    file_group_uri,  \* file_group.uri of each process's item object
    name,         \* the local 'name' of put_file_group is bound
    connected,    \* the repository object of each process has opened a connection
    uri,          \* the uri of each of two items, a string (or None)
    result,       \* what cache_path(item) gave for each of them
    fs,           \* the paths of the two items that exist on disk
    phase,        \* how far the call resolving each of the two items is
    args,         \* the arguments of the call of a function that touches no file
    returned      \* what that call returned or raised

vars == <<remote, check_md5, directory, has_race_cond_delay, cache, manifest,
          tmp_dir, unchanged, pc, calls, checksums, via, faulted, snap,
          derived, file_group_uri, name, connected, uri, result, fs, phase,
          args, returned>>
\* the two items of the cache layout, which the calls on the one item of the
\* variables above never touch
layout == <<uri, result, fs, phase>>
\* a call of a function that touches no file, which the calls on the items
\* leave alone
functions == <<args, returned>>
\* what no call changes: the repository's settings and the item's format
config == <<check_md5, directory, has_race_cond_delay, derived>>

\* ------------------------------------------------------------ file contents
NoData == [f \in Files |-> 0]
NoCache == [exists |-> FALSE, files |-> NoData, nested |-> FALSE]
NoManifest == [state |-> "absent", sums |-> NoData]
NoTmpDir == [exists |-> FALSE, zip |-> "none", zipdata |-> NoData,
             expanded |-> "none", data |-> NoData, writers |-> {}, last |-> "none"]
EmptyTmpDir == [NoTmpDir EXCEPT !.exists = TRUE]
NoSnap == [began |-> NoData, prev |-> NoData, stale |-> FALSE, put |-> FALSE]

\* (mutant) the primary file's entry keeps its file name
Key_file_name(f) == f
\* Xnat.get_checksums: the digests of the remote files; for a format that is
\* not a directory the primary file's entry is keyed '.'
Key(f) == IF ~directory /\ f = "prim" THEN "." ELSE f
Keys == {Key(f) : f \in Files}
FileOf(k) == CHOOSE f \in Files : Key(f) = k
get_checksums(r) == [k \in Keys |-> r[FileOf(k)]]

\* number of changes the remote resource has seen
Changes == (remote["prim"] - 1) + (remote["aux"] - 1)

\* -------------------------------------------------------------- cache_path
\* A string is a sequence of characters; '/' separates and 'a' stands for the
\* characters of names.  Two suffixes count as one character each.
Chars == {"/", "a"}
DOWNLOAD_SUFFIX == <<".download">>
MD5_SUFFIX == <<".md5.json">>
\* the strings over the characters S of length n at most
Strings(S, n) == UNION {[1..k -> S] : k \in 0..n}
\* the uri of an item whose uri is not set
None == <<"None">>
\* Xnat.cache_dir
cache_dir == <<"c">>

\* s.split('/'): the pieces of s between the separators, empty ones included
RECURSIVE split(_)
split(s) ==
    IF \E i \in 1..Len(s) : s[i] = "/"
    THEN LET i == CHOOSE i \in 1..Len(s) :
                      s[i] = "/" /\ \A j \in 1..(i - 1) : s[j] # "/"
         IN  <<SubSeq(s, 1, i - 1)>> \o split(SubSeq(s, i + 1, Len(s)))
    ELSE <<s>>

\* os.path.join(path, *p): a piece that starts with '/' replaces what came
\* before it; another is appended, after a '/' unless the path ends with one
RECURSIVE join(_, _)
join(path, p) ==
    IF p = <<>>
    THEN path
    ELSE LET b == Head(p)
         IN  join(IF b # <<>> /\ b[1] = "/"
                  THEN b
                  ELSE IF path = <<>> \/ path[Len(path)] = "/"
                       THEN path \o b
                       ELSE path \o <<"/">> \o b,
                  Tail(p))

\* lst[3:]
From3(lst) == SubSeq(lst, 4, Len(lst))

\* Xnat.cache_path, lines 677-683
cache_path(u) ==
    IF u = None
    THEN [called |-> TRUE, raised |-> "ArcanaError", path |-> <<>>]
    ELSE [called |-> TRUE, raised |-> "none",
          path |-> join(cache_dir, From3(split(u)))]

\* the uri of the data node's resources, '/data/archive/.../resources/'
resources_uri == <<"/", "a", "/", "a", "/">>

\* ------------------------------------------------------------- positions
\* a process between two calls: before its first, after a return of
\* get_file_group_paths, of put_file_group or of get_checksums, after an error
Rest == {"idle", "done", "put_done", "checksums_done", "usage_error",
         "format_error", "wrong_repository", "failed"}
\* inside download_file_group
InDownload == {"open_zip", "stream", "get_checksums", "extract", "glob",
               "rmtree_cache", "move", "open_md5", "dump"}
\* inside _delayed_download, before it downloads
InDelayed == {"dir_modtime", "sleep", "rmtree_tmp", "mkdir"}

Goto(p, l) == pc' = [pc EXCEPT ![p] = l]
\* an exception leaves get_file_group_paths: nothing is cleaned up on the way out
Raise(p) == Goto(p, "failed")
\* no other process is in a call or will make one
Alone(p) == \A q \in Procs \ {p} : pc[q] \in Rest /\ calls[q] = 0

\* the item is cached and its manifest differs from the remote manifest
Stale ==
    /\ cache.exists
    /\ manifest.state = "ok"
    /\ manifest.sums # get_checksums(remote)

\* ---------------------------------------------------------- file_group.uri
\* 'not file_group.uri' is false: the uri of the item object is set
uri_set == [p \in Procs |-> file_group_uri[p] # None]
\* escape_name(file_group), which is the label of a derivative's resource, and
\* data_format_name, the label of a scan's resource
resource_name == <<"a">>
\* '/scans/' + xscan.id, which follows the node's uri for a scan (the
\* separator written last here, as in resources_uri)
scans_uri == <<"a", "/">>
\* lines 153-169 of get_file_group_paths: an unset uri becomes that of the
\* resource found on the server
get_uri(p) ==
    IF uri_set[p]
    THEN file_group_uri[p]
    ELSE IF derived
         THEN resources_uri \o resource_name
         ELSE resources_uri \o scans_uri \o resource_name
\* (mutant) put_file_group assigns the uri whether it is set or not
put_uri_always(p) == resources_uri \o resource_name
\* lines 270-274 of put_file_group: an unset uri becomes that of the resource
\* the upload will create
put_uri(p) ==
    IF uri_set[p]
    THEN file_group_uri[p]
    ELSE resources_uri \o resource_name

\* ------------------------------------------------- get_file_group_paths
\* The caller enters get_file_group_paths, lines 146-170: an unset uri is set
\* from the resource found on the server (a KeyError when there is none), and
\* cache_path is derived from the uri.
Call(p) ==
    /\ pc[p] \in Rest
    /\ calls[p] > 0
    /\ calls' = [calls EXCEPT ![p] = @ - 1]
    /\ via' = [via EXCEPT ![p] = "none"]
    /\ faulted' = [faulted EXCEPT ![p] = FALSE]
    /\ checksums' = [checksums EXCEPT ![p] = NoData]
    /\ connected' = [connected EXCEPT ![p] = TRUE]
    /\ snap' = [snap EXCEPT ![p] =
                  IF Alone(p)
                  THEN [began |-> remote,
                        prev |-> IF pc[p] = "done" THEN snap[p].began ELSE NoData,
                        stale |-> Stale,
                        put |-> pc[p] = "put_done"]
                  ELSE NoSnap]
    /\ IF ~uri_set[p] /\ remote = NoData
       THEN /\ Raise(p)
            /\ UNCHANGED file_group_uri
       ELSE /\ file_group_uri' = [file_group_uri EXCEPT ![p] = get_uri(p)]
            /\ Goto(p, "exists")
    /\ UNCHANGED <<remote, config, layout, functions, name, cache, manifest,
                   tmp_dir, unchanged>>

\* (mutant) need_to_download is never set
need_to_download_never == FALSE
\* (mutant) need_to_download is never cleared
need_to_download_always == TRUE

\* (mutant) only the primary file's digest is compared
need_to_download_primary_only ==
    ~ (/\ cache.exists
       /\ check_md5 => /\ manifest.state = "ok"
                       /\ manifest.sums[Key("prim")] = remote["prim"])
\* (mutant) the manifest is compared whatever check_md5 says
need_to_download_md5_always ==
    ~ (/\ cache.exists
       /\ manifest.state = "ok"
       /\ manifest.sums = get_checksums(remote))

\* The test of lines 171-183: the cache is used as it is when cache_path
\* exists and, with check_md5, the manifest read from disk equals
\* file_group.checksums.
need_to_download ==
    ~ (/\ cache.exists
       /\ check_md5 => /\ manifest.state = "ok"
                       /\ manifest.sums = get_checksums(remote))

\* json.load of a manifest that was opened for writing and not yet dumped
\* raises a ValueError, which 'except IOError' does not catch.  The query of
\* file_group.checksums fails when the server has no such resource.
Exists(p) ==
    /\ pc[p] = "exists"
    /\ IF /\ cache.exists /\ check_md5
          /\ \/ manifest.state = "partial"
             \/ manifest.state = "ok" /\ remote = NoData
       THEN Raise(p)
       ELSE IF need_to_download THEN Goto(p, "makedirs") ELSE Goto(p, "listdir")
    /\ UNCHANGED <<remote, config, layout, functions, file_group_uri, name,
                   cache, manifest, tmp_dir, unchanged, calls, connected,
                   checksums, via, faulted, snap>>

\* file_group.checksums asks the server, which may fail.
ExistsRemoteError(p) ==
    /\ pc[p] = "exists"
    /\ cache.exists /\ check_md5 /\ manifest.state = "ok"
    /\ faulted' = [faulted EXCEPT ![p] = TRUE]
    /\ Raise(p)
    /\ UNCHANGED <<remote, config, layout, functions, file_group_uri, name,
                   cache, manifest, tmp_dir, unchanged, calls, connected,
                   checksums, via, snap>>

\* os.makedirs(tmp_dir): creates the directory, or fails with EEXIST.  The
\* handler calls _delayed_download with delay=self._race_cond_delay (line
\* 210); the class declares race_condition_delay (line 80), so reading the
\* argument raises AttributeError unless the object was given the attribute.
Makedirs(p) ==
    /\ pc[p] = "makedirs"
    /\ IF tmp_dir.exists
       THEN /\ IF has_race_cond_delay THEN Goto(p, "dir_modtime") ELSE Raise(p)
            /\ UNCHANGED <<tmp_dir, unchanged, via>>
       ELSE /\ tmp_dir' = EmptyTmpDir
            /\ unchanged' = {}
            /\ via' = [via EXCEPT ![p] = "direct"]
            /\ Goto(p, "open_zip")
    /\ UNCHANGED <<remote, config, layout, functions, file_group_uri, name,
                   cache, manifest, calls, connected, checksums, faulted, snap>>

\* os.makedirs(tmp_dir) fails with an errno other than EEXIST (no space, no
\* permission): the handler raises the error again, line 212
MakedirsError(p) ==
    /\ pc[p] = "makedirs"
    /\ ~tmp_dir.exists
    /\ Raise(p)
    /\ UNCHANGED <<remote, config, layout, functions, file_group_uri, name,
                   cache, manifest, tmp_dir, unchanged, calls, connected,
                   checksums, via, faulted, snap>>

\* ------------------------------------------------------ _delayed_download
\* initial_mod_time = dir_modtime(tmp_dir): fails when the directory is gone.
DelayedModtime(p) ==
    /\ pc[p] = "dir_modtime"
    /\ IF tmp_dir.exists
       THEN /\ unchanged' = unchanged \cup {p}
            /\ Goto(p, "sleep")
       ELSE /\ Raise(p)
            /\ UNCHANGED unchanged
    /\ UNCHANGED <<remote, config, layout, functions, file_group_uri, name,
                   cache, manifest, tmp_dir, calls, connected, checksums, via,
                   faulted, snap>>

\* After time.sleep(delay), lines 609-625: return if cache_path exists, wait
\* again if the directory's modification time moved, take over otherwise.
DelayedWake(p) ==
    /\ pc[p] = "sleep"
    /\ IF cache.exists
       THEN Goto(p, "listdir")
       ELSE IF ~tmp_dir.exists
            THEN Raise(p)
            ELSE IF p \notin unchanged
                 THEN Goto(p, "dir_modtime")
                 ELSE Goto(p, "rmtree_tmp")
    /\ unchanged' = unchanged \ {p}
    /\ UNCHANGED <<remote, config, layout, functions, file_group_uri, name,
                   cache, manifest, tmp_dir, calls, connected, checksums, via,
                   faulted, snap>>

\* shutil.rmtree(tmp_dir) of line 626
DelayedRmtree(p) ==
    /\ pc[p] = "rmtree_tmp"
    /\ IF tmp_dir.exists
       THEN /\ tmp_dir' = NoTmpDir
            /\ unchanged' = {}
            /\ Goto(p, "mkdir")
       ELSE /\ Raise(p)
            /\ UNCHANGED <<tmp_dir, unchanged>>
    /\ UNCHANGED <<remote, config, layout, functions, file_group_uri, name,
                   cache, manifest, calls, connected, checksums, via, faulted,
                   snap>>

\* os.mkdir(tmp_dir) of line 627, then download_file_group is entered
DelayedMkdir(p) ==
    /\ pc[p] = "mkdir"
    /\ IF tmp_dir.exists
       THEN /\ Raise(p)
            /\ UNCHANGED <<tmp_dir, unchanged, via>>
       ELSE /\ tmp_dir' = EmptyTmpDir
            /\ unchanged' = {}
            /\ via' = [via EXCEPT ![p] = "takeover"]
            /\ Goto(p, "open_zip")
    /\ UNCHANGED <<remote, config, layout, functions, file_group_uri, name,
                   cache, manifest, calls, connected, checksums, faulted, snap>>

\* ---------------------------------------------------- download_file_group
\* open(zip_path, 'wb'): creates or truncates tmp_dir/download.zip.  The file
\* is complete again when the process that truncated it last has written it.
OpenZip(p) ==
    /\ pc[p] = "open_zip"
    /\ IF tmp_dir.exists
       THEN /\ tmp_dir' = [tmp_dir EXCEPT
                  !.zip = "partial",
                  !.zipdata = NoData,
                  !.writers = @ \cup {p},
                  !.last = p]
            /\ unchanged' = IF tmp_dir.zip = "none" THEN {} ELSE unchanged
            /\ Goto(p, "stream")
       ELSE /\ Raise(p)
            /\ UNCHANGED <<tmp_dir, unchanged>>
    /\ UNCHANGED <<remote, config, layout, functions, file_group_uri, name,
                   cache, manifest, calls, connected, checksums, via, faulted,
                   snap>>

\* what download.zip is once process p has written the resource into it
Written(p) ==
    IF tmp_dir.last = p
    THEN [tmp_dir EXCEPT !.zip = "ok", !.zipdata = remote]
    ELSE IF tmp_dir.zip = "ok" /\ tmp_dir.zipdata # remote
         THEN [tmp_dir EXCEPT !.zip = "corrupt", !.zipdata = NoData]
         ELSE tmp_dir

\* download_stream writes the resource into the open file and the file is
\* closed.  The file may no longer be in tmp_dir (the directory was deleted).
DownloadStream(p) ==
    /\ pc[p] = "stream"
    /\ remote # NoData
    /\ tmp_dir' = IF p \in tmp_dir.writers
                  THEN [Written(p) EXCEPT !.writers = @ \ {p}]
                  ELSE tmp_dir
    /\ Goto(p, "get_checksums")
    /\ UNCHANGED <<remote, config, layout, functions, file_group_uri, name,
                   cache, manifest, unchanged, calls, connected, checksums,
                   via, faulted, snap>>

\* (mutant) a failed download_stream is tried again
DownloadStreamError_retried(p) ==
    /\ pc[p] = "stream"
    /\ tmp_dir' = [tmp_dir EXCEPT !.writers = @ \ {p}]
    /\ faulted' = [faulted EXCEPT ![p] = TRUE]
    /\ Goto(p, "open_zip")
    /\ UNCHANGED <<remote, config, layout, functions, file_group_uri, name,
                   cache, manifest, unchanged, calls, connected, checksums,
                   via, snap>>

\* download_stream fails: the error leaves download_file_group
DownloadStreamError(p) ==
    /\ pc[p] = "stream"
    /\ tmp_dir' = [tmp_dir EXCEPT !.writers = @ \ {p}]
    /\ faulted' = [faulted EXCEPT ![p] = TRUE]
    /\ Raise(p)
    /\ UNCHANGED <<remote, config, layout, functions, file_group_uri, name,
                   cache, manifest, unchanged, calls, connected, checksums,
                   via, snap>>

\* checksums = self.get_checksums(file_group)
GetChecksums(p) ==
    /\ pc[p] = "get_checksums"
    /\ remote # NoData
    /\ checksums' = [checksums EXCEPT ![p] = get_checksums(remote)]
    /\ Goto(p, "extract")
    /\ UNCHANGED <<remote, config, layout, functions, file_group_uri, name,
                   cache, manifest, tmp_dir, unchanged, calls, connected, via,
                   faulted, snap>>

GetChecksumsError(p) ==
    /\ pc[p] = "get_checksums"
    /\ faulted' = [faulted EXCEPT ![p] = TRUE]
    /\ Raise(p)
    /\ UNCHANGED <<remote, config, layout, functions, file_group_uri, name,
                   cache, manifest, tmp_dir, unchanged, calls, connected,
                   checksums, via, snap>>

\* (mutant) the archive is unpacked into cache_path itself
Extract_into_cache_path(p) ==
    /\ pc[p] = "extract"
    /\ IF tmp_dir.exists /\ tmp_dir.zip = "ok"
       THEN /\ cache' = [exists |-> TRUE, files |-> tmp_dir.zipdata, nested |-> FALSE]
            /\ tmp_dir' = [tmp_dir EXCEPT !.expanded = "ok", !.data = tmp_dir.zipdata]
            /\ unchanged' = IF tmp_dir.expanded = "ok" THEN unchanged ELSE {}
            /\ Goto(p, "glob")
       ELSE /\ Raise(p)
            /\ UNCHANGED <<cache, tmp_dir, unchanged>>
    /\ UNCHANGED <<remote, config, layout, functions, file_group_uri, name,
                   manifest, calls, connected, checksums, via, faulted, snap>>

\* ZipFile(zip_path).extractall(expanded_dir): fails on a missing file and on
\* one that is no complete archive
Extract(p) ==
    /\ pc[p] = "extract"
    /\ IF tmp_dir.exists /\ tmp_dir.zip = "ok"
       THEN /\ tmp_dir' = [tmp_dir EXCEPT !.expanded = "ok", !.data = tmp_dir.zipdata]
            /\ unchanged' = IF tmp_dir.expanded = "ok" THEN unchanged ELSE {}
            /\ Goto(p, "glob")
       ELSE /\ Raise(p)
            /\ UNCHANGED <<tmp_dir, unchanged>>
    /\ UNCHANGED <<remote, config, layout, functions, file_group_uri, name,
                   cache, manifest, calls, connected, checksums, via, faulted,
                   snap>>

\* data_path = glob(expanded_dir + '/**/files')[0]: IndexError when nothing matches
Glob(p) ==
    /\ pc[p] = "glob"
    /\ IF tmp_dir.exists /\ tmp_dir.expanded = "ok"
       THEN Goto(p, "rmtree_cache")
       ELSE Raise(p)
    /\ UNCHANGED <<remote, config, layout, functions, file_group_uri, name,
                   cache, manifest, tmp_dir, unchanged, calls, connected,
                   checksums, via, faulted, snap>>

\* the entry shutil.rmtree deletes next
NextEntry(c) == IF c.files["aux"] # 0 THEN "aux" ELSE "prim"

\* shutil.rmtree(cache_path), one entry at a step and the directory last;
\* ENOENT is ignored whenever it comes
RmtreeCache(p) ==
    /\ pc[p] = "rmtree_cache"
    /\ IF ~cache.exists
       THEN /\ Goto(p, "move")
            /\ UNCHANGED cache
       ELSE IF cache.nested
            THEN /\ cache' = [cache EXCEPT !.nested = FALSE]
                 /\ UNCHANGED pc
            ELSE IF cache.files # NoData
                 THEN /\ cache' = [cache EXCEPT !.files[NextEntry(cache)] = 0]
                      /\ UNCHANGED pc
                 ELSE /\ cache' = NoCache
                      /\ Goto(p, "move")
    /\ UNCHANGED <<remote, config, layout, functions, file_group_uri, name,
                   manifest, tmp_dir, unchanged, calls, connected, checksums,
                   via, faulted, snap>>

\* shutil.move(data_path, cache_path): a rename when cache_path does not
\* exist; into cache_path, as cache_path/files, when it is a directory
Move(p) ==
    /\ pc[p] = "move"
    /\ IF ~(tmp_dir.exists /\ tmp_dir.expanded = "ok") \/ (cache.exists /\ cache.nested)
       THEN /\ Raise(p)
            /\ UNCHANGED <<cache, tmp_dir, unchanged>>
       ELSE /\ cache' = IF cache.exists
                        THEN [cache EXCEPT !.nested = TRUE]
                        ELSE [exists |-> TRUE, files |-> tmp_dir.data, nested |-> FALSE]
            /\ tmp_dir' = [tmp_dir EXCEPT !.expanded = "empty", !.data = NoData]
            /\ unchanged' = {}
            /\ Goto(p, "open_md5")
    /\ UNCHANGED <<remote, config, layout, functions, file_group_uri, name,
                   manifest, calls, connected, checksums, via, faulted, snap>>

\* open(cache_path + MD5_SUFFIX, 'w') truncates the manifest
OpenMd5(p) ==
    /\ pc[p] = "open_md5"
    /\ manifest' = [state |-> "partial", sums |-> NoData]
    /\ Goto(p, "dump")
    /\ UNCHANGED <<remote, config, layout, functions, file_group_uri, name,
                   cache, tmp_dir, unchanged, calls, connected, checksums, via,
                   faulted, snap>>

\* json.dump(checksums, f); download_file_group returns
Dump(p) ==
    /\ pc[p] = "dump"
    /\ manifest' = [state |-> "ok", sums |-> checksums[p]]
    /\ Goto(p, IF via[p] = "direct" THEN "rmtree_marker" ELSE "listdir")
    /\ UNCHANGED <<remote, config, layout, functions, file_group_uri, name,
                   cache, tmp_dir, unchanged, calls, connected, checksums, via,
                   faulted, snap>>

\* shutil.rmtree(tmp_dir) of line 216
RmtreeMarker(p) ==
    /\ pc[p] = "rmtree_marker"
    /\ IF tmp_dir.exists
       THEN /\ tmp_dir' = NoTmpDir
            /\ unchanged' = {}
            /\ Goto(p, "listdir")
       ELSE /\ Raise(p)
            /\ UNCHANGED <<tmp_dir, unchanged>>
    /\ UNCHANGED <<remote, config, layout, functions, file_group_uri, name,
                   cache, manifest, calls, connected, checksums, via, faulted,
                   snap>>

\* lines 217-223: os.listdir(cache_path) for a format that is no directory
Return(p) ==
    /\ pc[p] = "listdir"
    /\ IF ~directory /\ ~cache.exists THEN Raise(p) ELSE Goto(p, "done")
    /\ UNCHANGED <<remote, config, layout, functions, file_group_uri, name,
                   cache, manifest, tmp_dir, unchanged, calls, connected,
                   checksums, via, faulted, snap>>

\* ---------------------------------------------------------- put_file_group
\* the digests of the files at file_group.local_cache, the content to upload
local_cache == [f \in Files |-> 9]
\* file_group.calculate_checksums(): the digests of the local files, keyed as
\* get_checksums keys those of the server
calculate_checksums == get_checksums(local_cache)

\* inside put_file_group
InPut == {"put_exists", "put_rmtree", "put_makedirs", "put_copy", "put_copy_aux",
          "put_open_md5", "put_dump", "put_resources", "put_delete",
          "put_create", "put_upload", "put_upload_aux"}
\* what put_file_group leaves alone once it is entered
put_frame == <<config, layout, functions, tmp_dir, unchanged, calls,
               connected, checksums, via, snap, file_group_uri, name>>

\* The caller enters put_file_group, lines 261-276: 'name' is bound only when
\* the uri is not set yet.
PutCall(p) ==
    /\ pc[p] \in Rest
    /\ calls[p] > 0
    /\ calls' = [calls EXCEPT ![p] = @ - 1]
    /\ via' = [via EXCEPT ![p] = "none"]
    /\ faulted' = [faulted EXCEPT ![p] = FALSE]
    /\ checksums' = [checksums EXCEPT ![p] = NoData]
    /\ snap' = [snap EXCEPT ![p] = NoSnap]
    /\ connected' = [connected EXCEPT ![p] = TRUE]
    /\ name' = [name EXCEPT ![p] = ~uri_set[p]]
    /\ file_group_uri' = [file_group_uri EXCEPT ![p] = put_uri(p)]
    /\ Goto(p, "put_exists")
    /\ UNCHANGED <<remote, config, layout, functions, cache, manifest, tmp_dir,
                   unchanged>>

\* if os.path.exists(cache_path), line 277
PutExists(p) ==
    /\ pc[p] = "put_exists"
    /\ Goto(p, IF cache.exists THEN "put_rmtree" ELSE "put_makedirs")
    /\ UNCHANGED <<remote, cache, manifest, faulted, put_frame>>

\* shutil.rmtree(cache_path) of line 278, one entry at a step
PutRmtree(p) ==
    /\ pc[p] = "put_rmtree"
    /\ IF ~cache.exists
       THEN /\ Raise(p)
            /\ UNCHANGED cache
       ELSE IF cache.nested
            THEN /\ cache' = [cache EXCEPT !.nested = FALSE]
                 /\ UNCHANGED pc
            ELSE IF cache.files # NoData
                 THEN /\ cache' = [cache EXCEPT !.files[NextEntry(cache)] = 0]
                      /\ UNCHANGED pc
                 ELSE /\ cache' = NoCache
                      /\ Goto(p, "put_makedirs")
    /\ UNCHANGED <<remote, manifest, faulted, put_frame>>

\* os.makedirs(cache_path, mode) of line 279: fails when the path exists
PutMakedirs(p) ==
    /\ pc[p] = "put_makedirs"
    /\ IF cache.exists
       THEN /\ Raise(p)
            /\ UNCHANGED cache
       ELSE /\ cache' = [NoCache EXCEPT !.exists = TRUE]
            /\ Goto(p, "put_copy")
    /\ UNCHANGED <<remote, manifest, faulted, put_frame>>

\* lines 280-285.  A directory: shutil.copytree(local_cache, cache_path) fails
\* because cache_path exists (it was just made).  Otherwise the primary file
\* is copied into cache_path.
PutCopy(p) ==
    /\ pc[p] = "put_copy"
    /\ IF directory
       THEN IF cache.exists
            THEN /\ Raise(p)
                 /\ UNCHANGED cache
            ELSE /\ cache' = [exists |-> TRUE, files |-> local_cache, nested |-> FALSE]
                 /\ Goto(p, "put_open_md5")
       ELSE IF cache.exists
            THEN /\ cache' = [cache EXCEPT !.files["prim"] = local_cache["prim"]]
                 /\ Goto(p, "put_copy_aux")
            ELSE /\ Raise(p)
                 /\ UNCHANGED cache
    /\ UNCHANGED <<remote, manifest, faulted, put_frame>>

\* (mutant) the auxiliary files are not copied into cache_path
PutCopyAux_skipped(p) ==
    /\ pc[p] = "put_copy_aux"
    /\ Goto(p, "put_open_md5")
    /\ UNCHANGED <<remote, cache, manifest, faulted, put_frame>>

\* lines 287-288: the auxiliary files are copied
PutCopyAux(p) ==
    /\ pc[p] = "put_copy_aux"
    /\ IF cache.exists
       THEN /\ cache' = [cache EXCEPT !.files["aux"] = local_cache["aux"]]
            /\ Goto(p, "put_open_md5")
       ELSE /\ Raise(p)
            /\ UNCHANGED cache
    /\ UNCHANGED <<remote, manifest, faulted, put_frame>>

\* open(cache_path + MD5_SUFFIX, 'w') of line 289 truncates the manifest
PutOpenMd5(p) ==
    /\ pc[p] = "put_open_md5"
    /\ manifest' = [state |-> "partial", sums |-> NoData]
    /\ Goto(p, "put_dump")
    /\ UNCHANGED <<remote, cache, faulted, put_frame>>

\* json.dump(file_group.calculate_checksums(), f) of line 291 (the item has
\* no provenance)
PutDump(p) ==
    /\ pc[p] = "put_dump"
    /\ manifest' = [state |-> "ok", sums |-> calculate_checksums]
    /\ Goto(p, "put_resources")
    /\ UNCHANGED <<remote, cache, faulted, put_frame>>

\* xresource = xnode.resources[name], lines 295-299: a NameError when 'name'
\* was not bound, a KeyError (passed over) when the server has no such resource
PutResources(p) ==
    /\ pc[p] = "put_resources"
    /\ IF ~name[p]
       THEN Raise(p)
       ELSE Goto(p, IF remote = NoData THEN "put_create" ELSE "put_delete")
    /\ UNCHANGED <<remote, cache, manifest, faulted, put_frame>>

\* xresource.delete() of line 303
PutDelete(p) ==
    /\ pc[p] = "put_delete"
    /\ remote' = NoData
    /\ Goto(p, "put_create")
    /\ UNCHANGED <<cache, manifest, faulted, put_frame>>

\* the new, empty resource is created, lines 305-306
PutCreate(p) ==
    /\ pc[p] = "put_create"
    /\ Goto(p, "put_upload")
    /\ UNCHANGED <<remote, cache, manifest, faulted, put_frame>>

\* the first xresource.upload, line 313 or 315
PutUpload(p) ==
    /\ pc[p] = "put_upload"
    /\ remote' = [remote EXCEPT !["prim"] = local_cache["prim"]]
    /\ Goto(p, "put_upload_aux")
    /\ UNCHANGED <<cache, manifest, faulted, put_frame>>

\* the remaining uploads, line 313 or 317; put_file_group returns
PutUploadAux(p) ==
    /\ pc[p] = "put_upload_aux"
    /\ remote' = [remote EXCEPT !["aux"] = local_cache["aux"]]
    /\ Goto(p, "put_done")
    /\ UNCHANGED <<cache, manifest, faulted, put_frame>>

\* a request to the server fails: the error leaves put_file_group
PutRemoteError(p) ==
    /\ pc[p] \in {"put_delete", "put_create", "put_upload", "put_upload_aux"}
    /\ faulted' = [faulted EXCEPT ![p] = TRUE]
    /\ Raise(p)
    /\ UNCHANGED <<remote, cache, manifest, put_frame>>

\* ----------------------------------------------------------- get_checksums
\* A caller calls get_checksums on the item itself (not from within
\* download_file_group).
ChecksumsCall(p) ==
    /\ pc[p] \in Rest
    /\ calls[p] > 0
    /\ calls' = [calls EXCEPT ![p] = @ - 1]
    /\ via' = [via EXCEPT ![p] = "none"]
    /\ faulted' = [faulted EXCEPT ![p] = FALSE]
    /\ checksums' = [checksums EXCEPT ![p] = NoData]
    /\ snap' = [snap EXCEPT ![p] = NoSnap]
    /\ Goto(p, "checksums_call")
    /\ UNCHANGED <<remote, config, layout, functions, file_group_uri, name,
                   connected, cache, manifest, tmp_dir, unchanged>>

\* lines 375-388: ArcanaUsageError when the uri is None; otherwise the
\* digests the server lists for the resource (an error when it has no such
\* resource), the primary file's key replaced
ChecksumsReturn(p) ==
    /\ pc[p] = "checksums_call"
    /\ IF file_group_uri[p] = None
       THEN /\ Goto(p, "usage_error")
            /\ UNCHANGED <<checksums, faulted, connected>>
       ELSE /\ connected' = [connected EXCEPT ![p] = TRUE]
            /\ IF remote = NoData
               THEN /\ faulted' = [faulted EXCEPT ![p] = TRUE]
                    /\ Raise(p)
                    /\ UNCHANGED checksums
               ELSE /\ checksums' =
                        [checksums EXCEPT ![p] = get_checksums(remote)]
                    /\ Goto(p, "checksums_done")
                    /\ UNCHANGED faulted
    /\ UNCHANGED <<remote, config, layout, functions, file_group_uri, name,
                   cache, manifest, tmp_dir, unchanged, calls, via, snap>>

\* ------------------------------------------------ the checks before a call
\* the items a call may be given: with a data format or without, of this
\* repository or of another
ItemsToCheck == [data_format : {"None", "format"},
                 repository : {"self", "other"}]

\* _check_repository raises when the item's repository is not this object
_check_repository(item) ==
    IF item.repository # "self" THEN "wrong_repository" ELSE "none"

\* lines 146-150: what get_file_group_paths raises before `with self:`
get_precondition(item) ==
    IF item.data_format = "None" THEN "usage_error"
    ELSE _check_repository(item)

\* lines 261-265: what put_file_group raises before `with self:`
put_precondition(item) ==
    IF item.data_format = "None" THEN "format_error"
    ELSE _check_repository(item)

\* the caller's bookkeeping of a call that ends with the error raised
Rejected(p, raised) ==
    /\ pc[p] \in Rest
    /\ calls[p] > 0
    /\ raised # "none"
    /\ calls' = [calls EXCEPT ![p] = @ - 1]
    /\ via' = [via EXCEPT ![p] = "none"]
    /\ faulted' = [faulted EXCEPT ![p] = FALSE]
    /\ checksums' = [checksums EXCEPT ![p] = NoData]
    /\ snap' = [snap EXCEPT ![p] = NoSnap]
    /\ Goto(p, raised)

\* (mutant) the checks are made inside `with self:`, after the uri is set
GetRejected_after_uri(p) ==
    /\ \E item \in ItemsToCheck : Rejected(p, get_precondition(item))
    /\ connected' = [connected EXCEPT ![p] = TRUE]
    /\ file_group_uri' = [file_group_uri EXCEPT ![p] = get_uri(p)]
    /\ UNCHANGED <<remote, config, layout, functions, name, cache, manifest,
                   tmp_dir, unchanged>>

\* get_file_group_paths is called with an item that lines 146-150 reject
GetRejected(p) ==
    /\ \E item \in ItemsToCheck : Rejected(p, get_precondition(item))
    /\ UNCHANGED <<remote, config, layout, functions, file_group_uri, name,
                   connected, cache, manifest, tmp_dir, unchanged>>

\* put_file_group is called with an item that lines 261-265 reject
PutRejected(p) ==
    /\ \E item \in ItemsToCheck : Rejected(p, put_precondition(item))
    /\ UNCHANGED <<remote, config, layout, functions, file_group_uri, name,
                   connected, cache, manifest, tmp_dir, unchanged>>

\* ----------------------------------------------------------- environment
\* the resource changes on the server: one file gets new content
RemoteChange(f) ==
    /\ Changes < MaxChanges
    /\ remote' = [remote EXCEPT ![f] = @ + 1]
    /\ UNCHANGED <<config, layout, functions, file_group_uri, name, cache,
                   manifest, tmp_dir, unchanged, pc, calls, connected,
                   checksums, via, faulted, snap>>

\* the two items
Items == {"X", "Y"}
NotCalled == [called |-> FALSE, raised |-> "none", path |-> <<>>]
\* the state of the two items while the calls on the one item run
NoLayout ==
    /\ uri = [i \in Items |-> None]
    /\ result = [i \in Items |-> NotCalled]
    /\ fs = {}
    /\ phase = [i \in Items |-> "idle"]
\* no function has been called
NoArgs == <<>>
NotReturned == [called |-> FALSE, raised |-> "none", value |-> <<>>]
NoFunctions == args = NoArgs /\ returned = NotReturned
\* the variables of the one item, left alone by the calls on the two
one_item == <<remote, config, cache, manifest, tmp_dir, unchanged, pc, calls,
              connected, checksums, via, faulted, snap, file_group_uri, name>>

\* cache_path(item) is called
CachePath(i) ==
    /\ ~result[i].called
    /\ result' = [result EXCEPT ![i] = cache_path(uri[i])]
    /\ UNCHANGED <<one_item, functions, uri, fs, phase>>

\* ------------------------------------------------- two items side by side
\* The calls of get_file_group_paths on two items of one data node, one
\* process for each, check_md5 being off: the paths each call tests, makes
\* and deletes.  The labels of the two resources are any short names.
LabelChars == {"a", ".download", ".md5.json"}
Labels == Strings(LabelChars, MaxLabelLen) \ {<<>>}

\* cache_path, tmp_dir = cache_path + '.download' and the manifest's path
PathsOf(cp) == [cache |-> cp, tmp |-> cp \o DOWNLOAD_SUFFIX, md5 |-> cp \o MD5_SUFFIX]
paths(i) == PathsOf(result[i].path)
\* path q lies below the directory d
Below(q, d) ==
    /\ Len(q) > Len(d)
    /\ SubSeq(q, 1, Len(d)) = d
    /\ q[Len(d) + 1] = "/"
\* what is left after shutil.rmtree(d)
rmtree(d) == {q \in fs : q # d /\ ~Below(q, d)}

ItemGoto(i, l) == phase' = [phase EXCEPT ![i] = l]

\* cache_path = self.cache_path(file_group), line 170
ItemCall(i) ==
    /\ phase[i] = "idle"
    /\ result' = [result EXCEPT ![i] = cache_path(uri[i])]
    /\ ItemGoto(i, "exists")
    /\ UNCHANGED <<one_item, functions, uri, fs>>

\* lines 171-184 without check_md5: op.exists(cache_path)
ItemExists(i) ==
    /\ phase[i] = "exists"
    /\ ItemGoto(i, IF paths(i).cache \in fs THEN "done" ELSE "makedirs")
    /\ UNCHANGED <<one_item, functions, uri, result, fs>>

\* os.makedirs(tmp_dir), line 196; on EEXIST _delayed_download is entered
ItemMakedirs(i) ==
    /\ phase[i] = "makedirs"
    /\ IF paths(i).tmp \in fs
       THEN /\ ItemGoto(i, "sleep")
            /\ UNCHANGED fs
       ELSE /\ fs' = fs \cup {paths(i).tmp}
            /\ ItemGoto(i, "download")
    /\ UNCHANGED <<one_item, functions, uri, result>>

\* _delayed_download after the delay, lines 609-627: return when cache_path
\* exists; otherwise (nothing having touched the directory) delete it and
\* make it again
ItemDelayed(i) ==
    /\ phase[i] = "sleep"
    /\ IF paths(i).cache \in fs
       THEN /\ ItemGoto(i, "done")
            /\ UNCHANGED fs
       ELSE IF paths(i).tmp \in fs
            THEN /\ fs' = rmtree(paths(i).tmp) \cup {paths(i).tmp}
                 /\ ItemGoto(i, "takeover")
            ELSE /\ ItemGoto(i, "failed")
                 /\ UNCHANGED fs
    /\ UNCHANGED <<one_item, functions, uri, result>>

\* download_file_group, lines 576-601: the download into tmp_dir, then
\* shutil.rmtree(cache_path), shutil.move(data_path, cache_path) and the
\* manifest
ItemDownload(i) ==
    /\ phase[i] \in {"download", "takeover"}
    /\ IF paths(i).tmp \in fs
       THEN /\ fs' = rmtree(paths(i).cache) \cup {paths(i).cache, paths(i).md5}
            /\ ItemGoto(i, IF phase[i] = "download" THEN "rmtree" ELSE "done")
       ELSE /\ ItemGoto(i, "failed")
            /\ UNCHANGED fs
    /\ UNCHANGED <<one_item, functions, uri, result>>

\* shutil.rmtree(tmp_dir), line 216
ItemRmtree(i) ==
    /\ phase[i] = "rmtree"
    /\ IF paths(i).tmp \in fs
       THEN /\ fs' = rmtree(paths(i).tmp)
            /\ ItemGoto(i, "done")
       ELSE /\ ItemGoto(i, "failed")
            /\ UNCHANGED fs
    /\ UNCHANGED <<one_item, functions, uri, result>>

\* ------------------------------------------------- generate_json_config
\* the members of the enumeration Clinical
Clinical == {"dataset", "member", "group", "subject", "timepoint",
             "matchedpoint", "batch", "session"}
\* VALID_FREQUENCIES of xnat/cs.py
VALID_FREQUENCIES == {"session", "dataset"}
\* the frequency argument: a member of Clinical, or a string, which may be
\* the name of a member or not
Frequencies ==
    [kind : {"member"}, name : Clinical] \cup
    [kind : {"str"}, name : Clinical \cup {"visit"}]

\* generate_json_config, lines 182-366 of xnat/cs.py, for inputs, outputs
\* and parameters that the task declares.  a.str_enum: the members of
\* Clinical are strings, so that "', '".join(VALID_FREQUENCIES) is no
\* TypeError.
generate_json_config(a) ==
    IF a.frequency.kind = "str" /\ a.frequency.name \notin Clinical
    THEN [called |-> TRUE, raised |-> "KeyError", value |-> <<>>]
    ELSE IF a.frequency.name \notin VALID_FREQUENCIES
         THEN [called |-> TRUE,
               raised |-> IF a.str_enum THEN "ArcanaUsageError" ELSE "TypeError",
               value |-> <<>>]
         ELSE IF a.frequency.name = "session"
              THEN [called |-> TRUE, raised |-> "none",
                    value |-> [contexts |-> "xnat:imageSessionData",
                               work |-> a.debug_output,
                               info_url |-> a.info_url]]
              ELSE [called |-> TRUE, raised |-> "NotImplementedError", value |-> <<>>]

\* generate_json_config is called
GenerateJsonConfig ==
    /\ ~returned.called
    /\ returned' = generate_json_config(args)
    /\ UNCHANGED <<one_item, layout, args>>

\* ------------------------------------------------------ Clinical.is_parent
\* the basis axes of Clinical, and those each frequency spans
Axes == {"member", "group", "timepoint"}
basis(f) ==
    CASE f = "dataset" -> {}
      [] f = "member" -> {"member"}
      [] f = "group" -> {"group"}
      [] f = "subject" -> {"member", "group"}
      [] f = "timepoint" -> {"timepoint"}
      [] f = "matchedpoint" -> {"member", "timepoint"}
      [] f = "batch" -> {"group", "timepoint"}
      [] f = "session" -> Axes

\* (mutant) member is a parent of group as well
test_is_parent_member_group ==
    {<<"member", "group">>} \cup
    {<<"member", b>> : b \in {"session", "subject", "matchedpoint"}} \cup
    {<<"group", b>> : b \in {"session", "subject", "batch"}} \cup
    {<<"timepoint", b>> : b \in {"session", "batch", "matchedpoint"}} \cup
    {<<a, "session">> : a \in {"subject", "batch", "matchedpoint"}} \cup
    {<<"dataset", b>> : b \in Clinical \ {"dataset"}}

\* test_is_parent: the pairs <<a, b>> for which a.is_parent(b) is asserted;
\* for every other pair of the sixty-four its negation is
test_is_parent ==
    {<<"member", b>> : b \in {"session", "subject", "matchedpoint"}} \cup
    {<<"group", b>> : b \in {"session", "subject", "batch"}} \cup
    {<<"timepoint", b>> : b \in {"session", "batch", "matchedpoint"}} \cup
    {<<a, "session">> : a \in {"subject", "batch", "matchedpoint"}} \cup
    {<<"dataset", b>> : b \in Clinical \ {"dataset"}}

\* a.is_parent(b), as the test fixes it
is_parent(a, b) == <<a, b>> \in test_is_parent

\* is_parent is called on the pairs of three frequencies
IsParent ==
    /\ ~returned.called
    /\ returned' = [called |-> TRUE, raised |-> "none",
                    value |-> [ab |-> is_parent(args.a, args.b),
                               bc |-> is_parent(args.b, args.c),
                               ac |-> is_parent(args.a, args.c)]]
    /\ UNCHANGED <<one_item, layout, args>>

\* ------------------------------------------- escape_name, unescape_name
\* A name is a string of tokens: the separators '__' and '___' count as one
\* token each, and so does every name that contains neither.
Names == {<<"a">>, <<"b">>}
\* frequency.hierarchy: the layers the ids of a data node are given for
hierarchy(f) == SelectSeq(<<"member", "group", "timepoint">>, LAMBDA l : l \in basis(f))

\* s.split(sep)
RECURSIVE split_on(_, _)
split_on(s, sep) ==
    IF \E i \in 1..Len(s) : s[i] = sep
    THEN LET i == CHOOSE i \in 1..Len(s) :
                      s[i] = sep /\ \A j \in 1..(i - 1) : s[j] # sep
         IN  <<SubSeq(s, 1, i - 1)>> \o split_on(SubSeq(s, i + 1, Len(s)), sep)
    ELSE <<s>>
\* sep.join(lst)
RECURSIVE join_with(_, _)
join_with(lst, sep) ==
    IF lst = <<>>
    THEN <<>>
    ELSE IF Len(lst) = 1
         THEN lst[1]
         ELSE lst[1] \o <<sep>> \o join_with(Tail(lst), sep)

\* the items: a name path, the frequency of the data node and its ids
ItemsToName ==
    {it \in [name_path : {<<n>> : n \in Names} \cup {<<n, k>> : n \in Names, k \in Names},
             frequency : Clinical,
             ids : UNION {[ls -> Names] : ls \in SUBSET Axes}] :
        DOMAIN it.ids = basis(it.frequency)}

\* Xnat.escape_name, lines 706-713
escape_name(item) ==
    IF item.frequency \notin {"subject", "session"}
    THEN <<"___">>
         \o join_with([i \in 1..Len(hierarchy(item.frequency)) |->
                          LET l == hierarchy(item.frequency)[i]
                          IN  <<l, "__">> \o item.ids[l]],
                      "___")
         \o <<"___">>
    ELSE join_with(item.name_path, "__")

\* Xnat.unescape_name, lines 733-743: 'freq_value != layer_freq' of line 740
\* is a comparison, so freq_value stays 0 and the frequency is Clinical(0),
\* the frequency of no axis
unescape_name(xname) ==
    LET pieces == split_on(xname, "___")
        id_parts == SubSeq(pieces, 2, Len(pieces) - 1)
        part(i) == split_on(id_parts[i], "__")
        unpacked(i) == Len(part(i)) = 2
        member(i) == Len(part(i)[1]) = 1 /\ part(i)[1][1] \in Clinical
        bad == {i \in 1..Len(id_parts) : ~unpacked(i) \/ ~member(i)}
        first == CHOOSE i \in bad : \A j \in bad : i <= j
    IN  IF bad # {}
        THEN [called |-> TRUE,
              raised |-> IF unpacked(first) THEN "KeyError" ELSE "ValueError",
              value |-> <<>>]
        ELSE IF id_parts = <<>>
             THEN [called |-> TRUE, raised |-> "IndexError", value |-> <<>>]
             ELSE [called |-> TRUE, raised |-> "none",
                   value |-> [name_path |-> join_with(part(Len(id_parts)), "/"),
                              frequency |-> CHOOSE f \in Clinical : basis(f) = {},
                              ids |-> [l \in {part(i)[1][1] : i \in 1..Len(id_parts)} |->
                                         LET i == CHOOSE i \in 1..Len(id_parts) :
                                                        part(i)[1][1] = l
                                         IN  part(i)[2]]]]

\* escape_name(item) is called
EscapeName ==
    /\ ~returned.called
    /\ returned' = [called |-> TRUE, raised |-> "none",
                    value |-> [xname |-> escape_name(args)]]
    /\ UNCHANGED <<one_item, layout, args>>

\* unescape_name is called with what escape_name returned
UnescapeName ==
    /\ returned.called
    /\ returned.raised = "none"
    /\ DOMAIN returned.value = {"xname"}
    /\ returned' = unescape_name(returned.value.xname)
    /\ UNCHANGED <<one_item, layout, args>>

\* --------------------------------------------------------------- bidsify_id
\* the characters of the ids: three letters, a digit and a hyphen
IdChars == {"s", "u", "b", "1", "-"}
\* attr.NOTHING: no id was given
NOTHING == <<"NOTHING">>
\* the ids bidsify_id is given
Ids == Strings(IdChars, MaxIdLen) \cup {NOTHING}
\* 'sub-'
sub_prefix == <<"s", "u", "b", "-">>
\* BidsApp.DEFAULT_ID
DEFAULT_ID == sub_prefix \o <<"D", "E", "F", "A", "U", "L", "T">>

\* [a-zA-Z0-9]
IsAlnum(c) == c # "-"
\* re.sub(r'[^a-zA-Z0-9]', '', id)
re_sub(id) == SelectSeq(id, IsAlnum)
\* s.startswith(prefix)
startswith(s, prefix) ==
    /\ Len(s) >= Len(prefix)
    /\ SubSeq(s, 1, Len(prefix)) = prefix

\* the id that lines 632-637 leave in 'id'
bidsified(id) ==
    IF id = NOTHING THEN DEFAULT_ID
    ELSE IF startswith(re_sub(id), sub_prefix)
         THEN re_sub(id)
         ELSE sub_prefix \o re_sub(id)

\* return id, id[len('sub-'):]
bidsify_id(id) ==
    [out |-> bidsified(id),
     no_prefix |-> SubSeq(bidsified(id), Len(sub_prefix) + 1,
                          Len(bidsified(id)))]

\* bidsify_id is called on the id
BidsifyId ==
    /\ ~returned.called
    /\ returned' = [called |-> TRUE, raised |-> "none",
                    value |-> bidsify_id(args.id)]
    /\ UNCHANGED <<one_item, layout, args>>

\* bidsify_id is called on the id it returned
BidsifyIdAgain ==
    /\ returned.called
    /\ returned.value.out # args.id
    /\ Len(returned.value.out) <= MaxIdLen
    /\ args' = [id |-> returned.value.out]
    /\ returned' = [called |-> TRUE, raised |-> "none",
                    value |-> bidsify_id(returned.value.out)]
    /\ UNCHANGED <<one_item, layout>>

\* ------------------------------------------------------- specifications
Step(p) ==
    \/ Exists(p) \/ Makedirs(p)
    \/ DelayedModtime(p) \/ DelayedWake(p) \/ DelayedRmtree(p) \/ DelayedMkdir(p)
    \/ OpenZip(p) \/ DownloadStream(p) \/ GetChecksums(p) \/ Extract(p) \/ Glob(p)
    \/ RmtreeCache(p) \/ Move(p) \/ OpenMd5(p) \/ Dump(p)
    \/ RmtreeMarker(p) \/ Return(p)

RemoteError(p) ==
    \/ ExistsRemoteError(p) \/ DownloadStreamError(p) \/ GetChecksumsError(p)

Next ==
    \/ \E p \in Procs : Call(p) \/ Step(p) \/ RemoteError(p)
    \/ \E f \in Files : RemoteChange(f)

InitWith(c) ==
    /\ remote = [f \in Files |-> 1]
    /\ check_md5 \in BOOLEAN
    /\ directory \in BOOLEAN
    /\ has_race_cond_delay \in BOOLEAN
    /\ derived = TRUE
    /\ cache = NoCache
    /\ manifest = NoManifest
    /\ tmp_dir = NoTmpDir
    /\ unchanged = {}
    /\ pc = [p \in Procs |-> "idle"]
    /\ calls = c
    /\ checksums = [p \in Procs |-> NoData]
    /\ via = [p \in Procs |-> "none"]
    /\ faulted = [p \in Procs |-> FALSE]
    /\ snap = [p \in Procs |-> NoSnap]
    /\ file_group_uri = [p \in Procs |-> None]
    /\ name = [p \in Procs |-> FALSE]
    /\ connected = [p \in Procs |-> FALSE]

\* two processes share the cache
Init ==
    /\ InitWith([p \in Procs |-> IF p = "p3" THEN 0 ELSE MaxCalls])
    /\ NoLayout /\ NoFunctions
Spec == Init /\ [][Next]_vars

\* one process makes all the calls, one after the other
SeqInit ==
    /\ InitWith([p \in Procs |-> IF p = "p1" THEN MaxCalls + 2 ELSE 0])
    /\ NoLayout /\ NoFunctions
SeqSpec == SeqInit /\ [][Next]_vars

\* two processes call once each
RaceInit ==
    /\ InitWith([p \in Procs |-> IF p = "p3" THEN 0 ELSE 1])
    /\ NoLayout /\ NoFunctions
RaceSpec == RaceInit /\ [][Next]_vars

\* two processes call once each, and the disk may refuse a new directory
DelayNext ==
    \/ Next
    \/ \E p \in Procs : MakedirsError(p)
DelaySpec == RaceInit /\ [][DelayNext]_vars

\* one process downloads and uploads the item, one call after the other; the
\* server holds the resource or does not hold it yet
PutStep(p) ==
    \/ PutExists(p) \/ PutRmtree(p) \/ PutMakedirs(p) \/ PutCopy(p) \/ PutCopyAux(p)
    \/ PutOpenMd5(p) \/ PutDump(p) \/ PutResources(p) \/ PutDelete(p)
    \/ PutCreate(p) \/ PutUpload(p) \/ PutUploadAux(p)

PutNext ==
    \E p \in Procs :
        \/ Call(p) \/ Step(p) \/ RemoteError(p)
        \/ PutCall(p) \/ PutStep(p) \/ PutRemoteError(p)

PutInitWith(c) ==
    /\ remote \in {NoData, [f \in Files |-> 1]}
    /\ check_md5 \in BOOLEAN
    /\ directory \in BOOLEAN
    /\ has_race_cond_delay \in BOOLEAN
    /\ cache = NoCache
    /\ manifest = NoManifest
    /\ tmp_dir = NoTmpDir
    /\ unchanged = {}
    /\ pc = [p \in Procs |-> "idle"]
    /\ calls = c
    /\ checksums = [p \in Procs |-> NoData]
    /\ via = [p \in Procs |-> "none"]
    /\ faulted = [p \in Procs |-> FALSE]
    /\ snap = [p \in Procs |-> NoSnap]
    /\ file_group_uri = [p \in Procs |-> None]
    /\ name = [p \in Procs |-> FALSE]
    /\ connected = [p \in Procs |-> FALSE]

PutInit ==
    /\ PutInitWith([p \in Procs |-> IF p = "p1" THEN MaxCalls + 2 ELSE 0])
    /\ derived \in BOOLEAN
    /\ NoLayout /\ NoFunctions
PutSpec == PutInit /\ [][PutNext]_vars

\* two processes download and upload the item side by side
PutRaceInit ==
    /\ PutInitWith([p \in Procs |->
                   IF p = "p1" THEN MaxCalls + 1 ELSE IF p = "p2" THEN 1 ELSE 0])
    /\ derived = TRUE
    /\ NoLayout /\ NoFunctions
PutRaceSpec == PutRaceInit /\ [][PutNext]_vars

\* one process calls get_checksums, get_file_group_paths and put_file_group on
\* its item, in any order
ChecksumsNext ==
    \/ PutNext
    \/ \E p \in Procs : ChecksumsCall(p) \/ ChecksumsReturn(p)
ChecksumsInit ==
    /\ PutInitWith([p \in Procs |-> IF p = "p1" THEN MaxCalls + 1 ELSE 0])
    /\ derived = TRUE
    /\ NoLayout /\ NoFunctions
ChecksumsSpec == ChecksumsInit /\ [][ChecksumsNext]_vars

\* one process calls get_file_group_paths and put_file_group on its item,
\* and on items without a format or of another repository
RejectNext ==
    \/ PutNext
    \/ \E p \in Procs : GetRejected(p) \/ PutRejected(p)
RejectInit ==
    /\ PutInitWith([p \in Procs |-> IF p = "p1" THEN MaxCalls + 1 ELSE 0])
    /\ derived = TRUE
    /\ NoLayout /\ NoFunctions
RejectSpec == RejectInit /\ [][RejectNext]_vars

\* cache_path is called for two items, whatever their uris
PathNext == \E i \in Items : CachePath(i)
PathInit ==
    /\ InitWith([p \in Procs |-> 0])
    /\ check_md5 /\ directory /\ has_race_cond_delay
    /\ uri \in [Items -> Strings(Chars, MaxUriLen) \cup {None}]
    /\ result = [i \in Items |-> NotCalled]
    /\ fs = {}
    /\ phase = [i \in Items |-> "idle"]
    /\ NoFunctions
PathSpec == PathInit /\ [][PathNext]_vars

\* two items of one data node are resolved side by side
LayoutNext ==
    \E i \in Items :
        \/ ItemCall(i) \/ ItemExists(i) \/ ItemMakedirs(i) \/ ItemDelayed(i)
        \/ ItemDownload(i) \/ ItemRmtree(i)
LayoutInit ==
    /\ InitWith([p \in Procs |-> 0])
    /\ ~check_md5 /\ ~directory /\ has_race_cond_delay
    /\ uri \in [Items -> {resources_uri \o l : l \in Labels}]
    /\ result = [i \in Items |-> NotCalled]
    /\ fs = {}
    /\ phase = [i \in Items |-> "idle"]
    /\ NoFunctions
LayoutSpec == LayoutInit /\ [][LayoutNext]_vars

\* generate_json_config is called once, with any frequency
ConfigNext == GenerateJsonConfig
ConfigInit ==
    /\ InitWith([p \in Procs |-> 0])
    /\ check_md5 /\ directory /\ has_race_cond_delay
    /\ NoLayout
    /\ args \in [frequency : Frequencies, debug_output : BOOLEAN,
                 info_url : BOOLEAN, str_enum : BOOLEAN]
    /\ returned = NotReturned
ConfigSpec == ConfigInit /\ [][ConfigNext]_vars

\* is_parent is called on any three frequencies
EnumNext == IsParent
EnumInit ==
    /\ InitWith([p \in Procs |-> 0])
    /\ check_md5 /\ directory /\ has_race_cond_delay
    /\ NoLayout
    /\ args \in [a : Clinical, b : Clinical, c : Clinical]
    /\ returned = NotReturned
EnumSpec == EnumInit /\ [][EnumNext]_vars

\* the name of any item is escaped and unescaped again
NameNext == EscapeName \/ UnescapeName
NameInit ==
    /\ InitWith([p \in Procs |-> 0])
    /\ check_md5 /\ directory /\ has_race_cond_delay
    /\ NoLayout
    /\ args \in ItemsToName
    /\ returned = NotReturned
NameSpec == NameInit /\ [][NameNext]_vars

\* bidsify_id is called on any id, and on what it returned
BidsNext == BidsifyId \/ BidsifyIdAgain
BidsInit ==
    /\ InitWith([p \in Procs |-> 0])
    /\ check_md5 /\ directory /\ has_race_cond_delay
    /\ NoLayout
    /\ args \in [id : Ids]
    /\ returned = NotReturned
BidsSpec == BidsInit /\ [][BidsNext]_vars

\* three processes share the cache, one call each
Init3 ==
    /\ InitWith([p \in Procs |-> 1]) /\ NoLayout /\ NoFunctions
    /\ check_md5 /\ directory /\ has_race_cond_delay
Spec3 == Init3 /\ [][Next]_vars

\* ------------------------------------------------------------ properties
\* the cache entry is what get_file_group_paths uses without a download
Valid == ~need_to_download
\* cache_path holds every file of the resource and nothing else
Complete ==
    /\ cache.exists
    /\ ~cache.nested
    /\ \A f \in Files : cache.files[f] # 0
\* the manifest is written and lists the digests of the resource on the server
ManifestIsRemote ==
    /\ manifest.state = "ok"
    /\ manifest.sums = get_checksums(remote)
\* every call so far is the first call of its process
FirstCalls == \A q \in Procs : calls[q] = 0 \/ calls[q] >= MaxCalls - 1 \/ pc[q] = "idle"
\* process p returns from get_file_group_paths in this step
Returns(p) == pc[p] = "listdir" /\ pc'[p] = "done"

\* C1: concurrent first calls on an item that was not cached, the resource
\* unchanged: whenever a call returns, the manifest file exists and equals the
\* remote manifest.
C1_ReturnSeesManifest ==
    [][\A p \in Procs :
         (Returns(p) /\ check_md5 /\ FirstCalls /\ Changes = 0)
            => ManifestIsRemote']_vars

\* C2: a cache entry that a call would use without a download (cache_path
\* exists and, check_md5 being on, the manifest equals the remote manifest)
\* holds every file of the item and nothing else.
C2_ValidIsComplete == (check_md5 /\ Valid) => Complete

\* the processes whose current or last call ran download_stream to its end
Fetched ==
    {p \in Procs : via[p] # "none" /\ pc[p] \notin {"open_zip", "stream", "failed"}}
\* the two racing processes have both returned and the resource never changed
BothReturned == pc["p1"] = "done" /\ pc["p2"] = "done" /\ Changes = 0

C4_OneDownloader ==
    \A p \in Procs : \A q \in Procs \ {p} :
        (pc[p] \in InDownload /\ pc[q] \in InDownload)
            => (via[p] = "takeover" \/ via[q] = "takeover")

\* process p finds the marker of an item that is not cached, no other process
\* being about
FindsStaleMarker(p) ==
    /\ Alone(p)
    /\ pc[p] = "makedirs"
    /\ tmp_dir.exists
    /\ ~cache.exists

\* C5: a call that finds a marker nobody touches on an item that is not
\* cached goes on to wait for the delay (and then takes the marker over and
\* downloads): it does not end there.
C5_StaleMarkerIsWaitedOut ==
    [][\A p \in Procs : FindsStaleMarker(p) => pc'[p] # "failed"]_vars

\* C6: when a call that downloaded returns, the marker directory is gone.
C6_MarkerGoneOnReturn ==
    [][\A p \in Procs :
         (Alone(p) /\ Returns(p) /\ via[p] # "none") => ~tmp_dir'.exists]_vars

\* C7: when download_file_group fails, no marker (with the data staged in it)
\* and no cache entry remain.
C7_FailureCleansUp ==
    [][\A p \in Procs :
         (Alone(p) /\ pc[p] \in InDownload /\ pc'[p] = "failed")
            => (~tmp_dir'.exists /\ ~cache'.exists)]_vars

\* the call p is in follows a call of p that returned, no other process is
\* about and the resource has not changed since the first of the two began
SecondCall(p) ==
    /\ Alone(p)
    /\ snap[p].prev = remote
    /\ snap[p].began = remote

\* C8: no step of such a second call enters download_file_group or changes
\* cache_path, the manifest or the marker directory.
C8_SecondCallChangesNothing ==
    [][\A p \in Procs :
         (SecondCall(p) /\ pc[p] \notin Rest)
            => /\ pc'[p] \notin InDownload
               /\ cache' = cache
               /\ manifest' = manifest
               /\ tmp_dir' = tmp_dir]_vars

C8_Witness == SecondCall("p1") /\ pc["p1"] = "done" /\ check_md5

\* C9: a call on a cached item whose manifest differs from the remote manifest
\* (the resource not changing during the call) returns with the manifest equal
\* to the remote manifest.
C9_StaleIsRefreshed ==
    [][\A p \in Procs :
         (Returns(p) /\ check_md5 /\ snap[p].stale /\ snap[p].began = remote)
            => ManifestIsRemote']_vars

\* a waiter took over the marker of a downloader that had not failed, both
\* calls are over, the remote neither failed nor changed
BothTransferred ==
    /\ \E p, q \in Procs : via[p] = "direct" /\ via[q] = "takeover"
    /\ \A p \in Procs : pc[p] \in Rest /\ ~faulted[p]
    /\ Changes = 0

\* C10: after two concurrent transfers of the item cache_path holds one
\* complete copy of the data and the manifest lists its digests.
C10_TwoTransfersOneCopy ==
    BothTransferred =>
        /\ Complete
        /\ manifest.state = "ok"
        /\ manifest.sums = get_checksums(cache.files)

\* process p returns from put_file_group in this step
PutReturns(p) == pc[p] = "put_upload_aux" /\ pc'[p] = "put_done"
\* the call p is in is a get_file_group_paths that follows a put_file_group of
\* p that returned, no other process being about
AfterPut(p) == snap[p].put /\ pc[p] \notin Rest

\* C11: when put_file_group returns, cache_path holds the uploaded files and
\* the manifest their checksums; the get_file_group_paths call that follows
\* finds the entry valid: it goes from its test straight to the listing of
\* cache_path (unless the server fails), downloads nothing and changes nothing.
C11_PutThenGetIsValid ==
    [][\A p \in Procs :
         /\ (PutReturns(p) /\ Alone(p)) =>
               /\ cache' = [exists |-> TRUE, files |-> local_cache, nested |-> FALSE]
               /\ manifest' = [state |-> "ok", sums |-> get_checksums(cache'.files)]
         /\ AfterPut(p) =>
               /\ pc'[p] \in {"exists", "listdir", "done"} \/ faulted'[p]
               /\ <<cache, manifest, tmp_dir, remote>>'
                     = <<cache, manifest, tmp_dir, remote>>]_vars

C11_Witness ==
    /\ snap["p1"].put
    /\ pc["p1"] = "done"
    /\ via["p1"] = "none"
    /\ check_md5
    /\ remote = local_cache

\* C12: a resource the server holds completely is held completely after every
\* step of an upload (the old copy is there until the new one is).
C12_RemoteStaysComplete ==
    [][(\A f \in Files : remote[f] # 0) => (\A f \in Files : remote'[f] # 0)]_vars

\* process p makes the test of lines 171-183 in this step and the server answers
Tests(p) == pc[p] = "exists" /\ pc'[p] # "exists" /\ ~faulted'[p]
\* the manifest file lists the files of the server's resource, name for name
\* and digest for digest (a digest of 0: no entry of that name)
SameManifest ==
    /\ manifest.state = "ok"
    /\ \A f \in Files : manifest.sums[Key(f)] = remote[f]
\* the manifest file cannot be parsed
Unparsable == cache.exists /\ manifest.state = "partial"

\* C13: with check_md5 the test skips the transfer exactly when cache_path
\* exists and the manifest file exists and equals the remote manifest; in every
\* other case (a manifest that cannot be parsed and a resource the server does
\* not hold set aside) the call goes on to download.
C13_SkipIffSameManifest ==
    [][\A p \in Procs :
         (Tests(p) /\ check_md5) =>
            /\ pc'[p] = "listdir" <=> (cache.exists /\ SameManifest)
            /\ (~(cache.exists /\ SameManifest) /\ ~Unparsable /\ remote # NoData)
                  => pc'[p] = "makedirs"]_vars

\* a call goes on to download because the manifest lacks an entry
C13_Witness ==
    /\ check_md5
    /\ pc["p1"] = "makedirs"
    /\ cache.exists
    /\ manifest.state = "ok"
    /\ manifest.sums[Key("prim")] = remote["prim"]
    /\ manifest.sums[Key("aux")] = 0
    /\ remote["aux"] # 0

\* process p reads the manifest file in this step (line 175 is reached only
\* with check_md5 and an existing cache_path)
ReadsManifest(p) ==
    pc[p] = "exists" /\ pc'[p] # "exists" /\ check_md5 /\ cache.exists

\* C14: a call that reads the manifest file finds no manifest, the complete
\* previous one or the complete new one, never one that is being written.
C14_ReaderSeesWholeManifest ==
    [][\A p \in Procs : ReadsManifest(p) => manifest.state # "partial"]_vars

\* C15: a call that finds a manifest file it cannot parse goes on to download
\* the item again; it does not end with an error.
C15_UnparsableIsStale ==
    [][\A p \in Procs :
         (ReadsManifest(p) /\ Unparsable) => pc'[p] = "makedirs"]_vars

\* C20: without check_md5 the test skips the transfer whenever cache_path
\* exists, whatever the manifest file and the server hold, and goes on to
\* download whenever cache_path does not exist; it never fails.
C20_NoMd5TrustsCachePath ==
    [][\A p \in Procs :
         (pc[p] = "exists" /\ pc'[p] # "exists" /\ ~check_md5)
            => pc'[p] = IF cache.exists THEN "listdir" ELSE "makedirs"]_vars

\* a call has skipped the transfer while the manifest was being written
C20_Witness ==
    /\ ~check_md5
    /\ pc["p2"] = "listdir"
    /\ via["p2"] = "none"
    /\ manifest.state = "partial"

\* the positions whose step deletes from, moves into or copies into cache_path
CacheWriting == {"rmtree_cache", "move",
                 "put_rmtree", "put_makedirs", "put_copy", "put_copy_aux"}
\* process p made the marker directory in the call it is in, and the
\* directory is there
HoldsMarker(p) == tmp_dir.exists /\ via[p] \in {"direct", "takeover"}

\* C19: every step that changes cache_path is the step of a process that
\* holds the item's marker.
C19_WritersHoldMarker ==
    [][cache' # cache =>
         \E p \in Procs : pc[p] \in CacheWriting /\ HoldsMarker(p)]_vars

\* the pieces every uri of the server starts with: '', 'data', 'archive'
\* (the one name character standing for both names)
remote_root == << <<>>, <<"a">>, <<"a">> >>
\* the uri is not set, or does not start with the pieces of the remote root
\* followed by one piece at least
Malformed(u) ==
    \/ u = None
    \/ Len(split(u)) <= Len(remote_root)
    \/ SubSeq(split(u), 1, Len(remote_root)) # remote_root

\* cache_path has returned a path for both items
BothPaths == \A i \in Items : result[i].called /\ result[i].raised = "none"

\* C16: two distinct uris (below the remote root both) never get the same
\* local path.
C16_Injective ==
    (/\ BothPaths
     /\ uri["X"] # uri["Y"]
     /\ ~Malformed(uri["X"]) /\ ~Malformed(uri["Y"]))
        => result["X"].path # result["Y"].path

\* C17: for a malformed uri cache_path raises an error; it returns no path.
C17_MalformedIsRejected ==
    \A i \in Items :
        (result[i].called /\ Malformed(uri[i])) => result[i].raised # "none"

\* the three paths of item i
ItemPaths(i) ==
    LET own == PathsOf(cache_path(uri[i]).path)
    IN  {own.cache, own.tmp, own.md5}

\* C18: a step of the call that resolves one item leaves the cache path, the
\* marker directory and the manifest file of a different item as they are.
C18_OtherItemUntouched ==
    [][\A i \in Items : \A j \in Items \ {i} :
         (uri[i] # uri[j] /\ phase'[i] # phase[i])
            => \A q \in ItemPaths(j) : (q \in fs') <=> (q \in fs)]_vars

\* the cache path, the marker directory and the manifest file a call of
\* process p uses
CallPaths(p) == PathsOf(cache_path(file_group_uri[p]).path)

\* C21: once the uri of an item is set, no step of a get_file_group_paths or
\* put_file_group call changes it, and the cache path, the marker path and
\* the manifest path derived from it stay the same.
C21_UriIsFrozen ==
    [][\A p \in Procs :
         uri_set[p] =>
            /\ file_group_uri'[p] = file_group_uri[p]
            /\ PathsOf(cache_path(file_group_uri'[p]).path) = CallPaths(p)]_vars

\* put_file_group runs on a scan whose uri get_file_group_paths has set
C21_Witness ==
    /\ ~derived
    /\ pc["p1"] \in InPut
    /\ file_group_uri["p1"] = resources_uri \o scans_uri \o resource_name
    /\ CallPaths("p1").cache # PathsOf(cache_path(put_uri_always("p1")).path).cache

\* the mapping C22 describes: the server's mapping r, the primary file's entry
\* keyed '.' unless the item is a directory
Sentinel(r) ==
    IF directory
    THEN r
    ELSE [k \in (Files \ {"prim"}) \cup {"."} |-> IF k = "." THEN r["prim"] ELSE r[k]]

\* C22: get_checksums raises ArcanaUsageError when the uri is not set; when it
\* returns, the result is the server's name-to-digest mapping with the primary
\* file's entry keyed '.' for an item that is no directory, and the mapping
\* unchanged for a directory.
C22_PrimaryKeyedDot ==
    [][\A p \in Procs :
         (pc[p] = "checksums_call" /\ pc'[p] # pc[p]) =>
            /\ file_group_uri[p] = None <=> pc'[p] = "usage_error"
            /\ pc'[p] = "checksums_done" => checksums'[p] = Sentinel(remote)
            /\ (file_group_uri[p] # None /\ remote # NoData)
                  => pc'[p] = "checksums_done"]_vars

\* get_checksums has returned the mapping of a resource whose primary file
\* and auxiliary file differ, for an item that is no directory
C22_Witness ==
    /\ ~directory
    /\ pc["p1"] = "checksums_done"
    /\ remote["prim"] = 9 /\ remote["aux"] = 0
    /\ checksums["p1"]["."] = 9
    /\ checksums["p1"]["aux"] = 0

\* C23: generate_json_config returns a command configuration for the
\* frequencies dataset and session, given as member of Clinical or by name,
\* and raises ArcanaUsageError for every other frequency.
C23_DatasetAndSessionAccepted ==
    returned.called =>
        IF args.frequency.name \in {"dataset", "session"}
        THEN returned.raised = "none" /\ returned.value # <<>>
        ELSE returned.raised = "ArcanaUsageError"

\* C25: is_parent is a strict order on the eight frequencies: no frequency is
\* a parent of itself, a parent of a parent is a parent, dataset is a parent
\* of every other frequency, session is a parent of none, and a is a parent
\* of b exactly when the basis axes of a are a strict subset of those of b.
C25_IsParentIsStrictSubset ==
    returned.called =>
        /\ args.a = args.b => ~returned.value.ab
        /\ (returned.value.ab /\ returned.value.bc) => returned.value.ac
        /\ (args.a = "dataset" /\ args.b # "dataset") => returned.value.ab
        /\ args.a = "session" => ~returned.value.ab
        /\ returned.value.ab <=>
              (basis(args.a) \subseteq basis(args.b) /\ basis(args.a) # basis(args.b))

\* member is a parent of subject, subject of session, member of session
C25_Witness ==
    /\ returned.called
    /\ args = [a |-> "member", b |-> "subject", c |-> "session"]
    /\ returned.value = [ab |-> TRUE, bc |-> TRUE, ac |-> TRUE]

\* unescape_name has been called on the escaped name of the item
Unescaped == returned.called /\ DOMAIN returned.value # {"xname"}

\* C24: unescape_name(escape_name(item)) returns the name path of the item,
\* the frequency of its data node and the ids of that node.
C24_UnescapeReversesEscape ==
    Unescaped =>
        /\ returned.raised = "none"
        /\ returned.value = [name_path |-> join_with(args.name_path, "/"),
                             frequency |-> args.frequency,
                             ids |-> args.ids]

\* process p, waiting in _delayed_download, returns from it after the delay
\* without a transfer
Adopts(p) == pc[p] = "sleep" /\ pc'[p] = "listdir"

\* C26: a waiting process adopts what it finds after the delay only if that
\* is a valid cache entry (cache_path exists and, check_md5 being on, the
\* manifest file equals the remote manifest); a stale cache_path, or one whose
\* manifest is not written yet, is not adopted.
C26_AdoptsOnlyValid ==
    [][\A p \in Procs : Adopts(p) => Valid]_vars

\* process p waits in _delayed_download and the marker directory, which is
\* there, has changed since p took its modification time
SeesProgress(p) == pc[p] = "sleep" /\ tmp_dir.exists /\ p \notin unchanged
\* the process that made the marker has downloaded the item and returned,
\* and the entry it left is valid
DownloaderDone(p) ==
    /\ \E q \in Procs \ {p} : pc[q] = "done" /\ via[q] = "direct"
    /\ Valid

\* C27: while the marker keeps changing and no valid cache entry has
\* appeared a waiting process only repeats the wait, and when the downloader
\* has completed it returns at its next poll without a transfer.
C27_WaitsWhileProgress ==
    [][\A p \in Procs :
         /\ (SeesProgress(p) /\ ~Valid)
               => /\ pc'[p] \in {"sleep", "dir_modtime"}
                  /\ pc'[p] # pc[p] => tmp_dir' = tmp_dir
         /\ (pc[p] \in {"dir_modtime", "sleep"} /\ DownloaderDone(p))
               => pc'[p] \in {"dir_modtime", "sleep", "listdir"}]_vars

\* C28: the cache path of a cached item is replaced in one step: once it
\* holds every file of the item it holds every file in each later state (of
\* the old copy or of the new one); it is never missing, partly deleted or
\* partly filled.
C28_ReplacedInOneStep ==
    [][Complete => Complete']_vars

\* the positions of download_file_group up to the end of the unpacking and
\* the search of the unpacked data (lines 578-592)
Fetching == {"open_zip", "stream", "get_checksums", "extract", "glob"}

\* C29: a step of a process that fetches or unpacks the payload changes the
\* marker directory at most: cache_path, the manifest file and the resource
\* on the server are as before, whether the step succeeds or fails.
C29_FetchStaysInMarker ==
    [][\A p \in Procs :
         (pc[p] \in Fetching /\ pc'[p] # pc[p])
            => /\ cache' = cache
               /\ manifest' = manifest
               /\ remote' = remote]_vars

\* a process has fetched and unpacked the payload of an item whose cache
\* path holds a complete copy
C29_Witness ==
    /\ pc["p2"] = "rmtree_cache"
    /\ via["p2"] = "direct"
    /\ tmp_dir.expanded = "ok"
    /\ Complete
    /\ manifest.state = "ok"

\* process p leaves the os.makedirs(tmp_dir) of line 196 in this step
MakesMarker(p) == pc[p] = "makedirs" /\ pc'[p] # pc[p]

\* C30: when os.makedirs(tmp_dir) fails because the marker exists, the call
\* enters the race-recovery protocol (with the configured delay); when it
\* fails for another reason the error leaves the call, and neither a wait nor
\* a transfer is started.
C30_ExistingMarkerIsWaitedFor ==
    [][\A p \in Procs :
         MakesMarker(p) =>
            IF tmp_dir.exists
            THEN pc'[p] = "dir_modtime"
            ELSE /\ pc'[p] \in {"open_zip", "failed"}
                 /\ pc'[p] = "failed" => tmp_dir' = tmp_dir]_vars

\* the remote fails on process p in this step
RemoteFails(p) == faulted'[p] /\ ~faulted[p]
\* process p enters download_file_group in this step
StartsFetch(p) == pc'[p] = "open_zip" /\ pc[p] # "open_zip"

\* C31: a failure of the remote during the fetch or the checksum query ends
\* the call with the error, and a call enters download_file_group once at
\* most: it does not fetch again after a fetch it has begun.
C31_NoInternalRetry ==
    [][\A p \in Procs :
         /\ RemoteFails(p) => pc'[p] = "failed"
         /\ StartsFetch(p) => (via[p] = "none" /\ ~faulted[p])]_vars

\* the fetch of a call that made the marker has failed and the call is over
C31_Witness ==
    /\ pc["p1"] = "failed"
    /\ faulted["p1"]
    /\ via["p1"] = "direct"
    /\ tmp_dir.zip = "partial"

\* the process that made the marker has failed and left it behind
MakerFailed == \E r \in Procs : pc[r] = "failed" /\ via[r] = "direct"
\* process q has found the marker unchanged and deleted it, and process p,
\* which found the same marker unchanged, is about to delete it or make it
TakingOverWith(p, q) ==
    /\ p # q
    /\ MakerFailed
    /\ pc[p] \in {"rmtree_tmp", "mkdir"}
    /\ pc[q] = "mkdir"

\* C32: of the processes that found the same marker unchanged, none fails at
\* the deletion or the creation of the marker because another of them has
\* begun to take the marker over.
C32_TakeoverIsExclusive ==
    [][\A p, q \in Procs :
         TakingOverWith(p, q) => pc'[p] # "failed"]_vars

\* the positions of _delayed_download before the marker is made again
Waiting == {"dir_modtime", "sleep", "rmtree_tmp"}

\* C33: a process in _delayed_download that finds the marker directory gone
\* (deleted by the process that finished the download) does not end with an
\* error.
C33_WaiterToleratesMarkerGone ==
    [][\A p \in Procs :
         (pc[p] \in Waiting /\ ~tmp_dir.exists) => pc'[p] # "failed"]_vars

\* process p writes the manifest of its download in this step
WritesManifest(p) == pc[p] = "dump" /\ pc'[p] # "dump"

\* C34: the manifest that download_file_group writes lists the digests of
\* the files it has put in cache_path, whatever the server did to the
\* resource between the fetch and the query of the digests.
C34_ManifestDescribesData ==
    [][\A p \in Procs :
         WritesManifest(p) => manifest'.sums = get_checksums(cache'.files)]_vars

\* put_file_group of process p ends in this step with an error of the
\* deletion of the old resource or of an upload
PutFailsAtRemote(p) ==
    /\ pc[p] \in {"put_delete", "put_upload", "put_upload_aux"}
    /\ pc'[p] = "failed"

\* C35: when put_file_group fails while it deletes the old resource or
\* uploads, it does not leave cache_path with a manifest of content that the
\* server does not hold.
C35_FailedPutLeavesNoManifest ==
    [][\A p \in Procs :
         PutFailsAtRemote(p) =>
            ~ (/\ cache'.exists
               /\ manifest'.state = "ok"
               /\ manifest'.sums # get_checksums(remote'))]_vars

\* put_file_group of process p was entered with the uri of its item set
PutWithUri(p) == pc[p] \in InPut /\ ~name[p]

\* C36: put_file_group of an item whose uri is already set does not end with
\* an error once it has begun to replace cache_path, unless a request to the
\* server fails.
C36_PutWithUriDoesNotFail ==
    [][\A p \in Procs :
         (PutWithUri(p) /\ ~directory /\ Alone(p))
            => (pc'[p] = "failed" => faulted'[p])]_vars

\* a call of process p is rejected in this step
IsRejected(p) ==
    /\ pc[p] \in Rest
    /\ calls'[p] < calls[p]
    /\ pc'[p] \in {"usage_error", "format_error", "wrong_repository"}

\* C37: a call of get_file_group_paths or put_file_group that is rejected for
\* the item's missing format or its repository opens no connection, assigns
\* no uri and leaves cache_path, the manifest, the marker and the resource as
\* they are.
C37_RejectedCallHasNoEffect ==
    [][\A p \in Procs :
         IsRejected(p) =>
            UNCHANGED <<connected, file_group_uri, name, cache, manifest,
                        tmp_dir, remote>>]_vars

\* a first call was rejected: no connection, no uri, nothing on disk
C37_Witness ==
    /\ pc["p1"] = "wrong_repository"
    /\ ~connected["p1"]
    /\ file_group_uri["p1"] = None
    /\ ~cache.exists /\ ~tmp_dir.exists /\ manifest.state = "absent"

\* C38: the id bidsify_id returns starts with one 'sub-', its second result
\* is that id without the prefix, and an id that starts with 'sub-' already
\* (an id it has returned, too) is returned as it is.
C38_PrefixedOnce ==
    returned.called =>
        /\ startswith(returned.value.out, sub_prefix)
        /\ ~startswith(returned.value.no_prefix, sub_prefix)
        /\ returned.value.out = sub_prefix \o returned.value.no_prefix
        /\ startswith(args.id, sub_prefix) => returned.value.out = args.id

====
